---- MODULE Spec2Model ----
(***************************************************************************)
(* Model of push.py (pushbullet-notifier): the websocket supervisor        *)
(* main_loop, the stream path read_frame -> handle_push_data, the fetch    *)
(* path fetch_new_pushes, and the shared gate process_message with the     *)
(* two in-memory sets and the persisted timestamp file.                    *)
(***************************************************************************)
EXTENDS Integers, Sequences, FiniteSets, TLC

VARIABLES
    pc,                   \* position of the single thread of control
    ssl_sock,             \* "unbound" | "open" | "closed": main_loop's ssl_sock
    backoff_time,         \* main_loop's backoff_time
    failures,             \* history: handler entries since the last successful connect
    hs,                   \* history: the handshake of the connection attempt just made
    received_timestamps,  \* module global, line 35
    processed_ids,        \* module global, line 36
    TIMESTAMP_FILE,       \* ~/.cache/pushbullet_last_timestamp: NoFile or a number
    CACHE_FILE,           \* sink: per id, the deliveries (notify-send run and cache line
                          \* appended), a saturating count
    last,                 \* history: the push handled by the latest step
    fetch,                \* the frame of the fetch_new_pushes call in progress
    prev_fetch,           \* history: how the latest finished fetch_new_pushes call ended
    server,               \* the REST endpoint's push list, when it is held fixed
    frame,                \* history: what the read_frame call of the latest step met
    elapsed,              \* time.time() - last_fetch_time in seconds, or Untimed
    peer                  \* the far end of the socket: "up" | "closed"

vars == <<pc, ssl_sock, backoff_time, failures, hs, received_timestamps,
          processed_ids, TIMESTAMP_FILE, CACHE_FILE, last, fetch, prev_fetch, server,
          frame, elapsed, peer>>

---------------------------------------------------------------------------
(* Bounds of the model *)

\* number of distinct push idens
NumIds == 3
\* largest "created" value of a push; 0 stands for a missing/zero created
MaxCreated == 2
\* largest top-level "created" value of a stream message
MaxFrameCreated == 2
\* longest push list a REST response carries
MaxBatch == 1
\* longest push list of a fixed server (SpecFetch)
MaxServer == 2
\* the sink counters saturate here
MaxDeliver == 2
\* the failure counter saturates here
MaxFailures == 8
\* number of distinct Sec-WebSocket-Key values
NumKeys == 2
\* stands for MAX_PROCESSED_IDS = 1000 (line 37), scaled down so that the
\* eviction branch is reached
MAX_PROCESSED_IDS == 2
\* the clock of the timed specification stops counting here (seconds)
MaxElapsed == 720

(* Program constants *)
RECONNECT_DELAY == 5
max_backoff == 300
FETCH_INTERVAL == 300
\* socket.create_connection(..., timeout=10), line 67
CONNECT_TIMEOUT == 10
\* sock.settimeout(30), line 98
READ_TIMEOUT == 30

DEVICE_ID == "D1"
OtherDevice == "D2"
None == "None"
NoFile == -1
\* the value of `elapsed` where time is left abstract
Untimed == -1

Ids == 1..NumIds
Keys == 1..NumKeys

\* A raw push record: the fields the code reads.  channel_iden "" is absent.
RawPush == [iden : Ids, created : 0..MaxCreated, active : BOOLEAN,
            target_device_iden : {DEVICE_ID, OtherDevice, None},
            channel_iden : {"", "chan"}]

Min(a, b) == IF a <= b THEN a ELSE b
Max(a, b) == IF a >= b THEN a ELSE b

---------------------------------------------------------------------------
(* Persistence: load_last_timestamp / save_last_timestamp *)

\* float(text) of the stored str(timestamp); 0 when the file does not exist
load_last_timestamp(file) == IF file = NoFile THEN 0 ELSE file

\* write_text(str(timestamp)): the file now holds the value
save_last_timestamp(timestamp) == timestamp

---------------------------------------------------------------------------
(* Handshake: create_websocket_connection *)

\* base64(sha1(key + GUID)): a token that differs for different keys
expected_accept(key) == 100 + key

\* an upgrade response: whether it holds "101 Switching Protocols" and which
\* accept token (0: none) occurs in it
Responses == [status101 : BOOLEAN, accept : {0} \cup {expected_accept(k) : k \in Keys}]

\* a bug: `and` for `or` in line 81, so one of the two marks is enough
HandshakeAcceptedEither(key, response) ==
    ~ (~ response.status101 /\ response.accept # expected_accept(key))

\* line 81 negated: the response is accepted
HandshakeAccepted(key, response) ==
    ~ (~ response.status101 \/ response.accept # expected_accept(key))

\* lines 80-85: what the call returns, and the state of the socket it made
create_websocket_connection(key, response) ==
    IF HandshakeAccepted(key, response)
    THEN [ret |-> "open", sock |-> "open"]
    ELSE [ret |-> "None", sock |-> "closed"]

---------------------------------------------------------------------------
(* Source routing and the device filter *)

Skip == "SKIP"
ChannelLabelFetch == "<sender_name>: \n<title>"
ChannelLabelStream == "Channel: <sender_name>"

\* a bug: the device test comes before the channel test
source_fetch_device_first(push) ==
    IF push.target_device_iden = DEVICE_ID THEN ""
    ELSE IF push.target_device_iden = None THEN "All Devices"
    ELSE IF push.channel_iden # "" THEN Skip
    ELSE Skip

\* fetch_new_pushes, lines 169-177
source_fetch(push) ==
    IF push.channel_iden # "" THEN ChannelLabelFetch
    ELSE IF push.target_device_iden = DEVICE_ID THEN ""
    ELSE IF push.target_device_iden = None THEN "All Devices"
    ELSE Skip

\* a bug: every push that is not for this device counts as broadcast
source_stream_unfiltered(push) ==
    IF push.channel_iden # "" THEN ChannelLabelStream
    ELSE IF push.target_device_iden = DEVICE_ID THEN ""
    ELSE "All Devices"

\* handle_push_data, lines 195-203
source_stream(push) ==
    IF push.channel_iden # "" THEN ChannelLabelStream
    ELSE IF push.target_device_iden = DEVICE_ID THEN ""
    ELSE IF push.target_device_iden = None THEN "All Devices"
    ELSE Skip

\* fetch_new_pushes, line 160: the push is passed over before routing
stale(push, last_timestamp) ==
    push.created <= last_timestamp \/ ~ push.active

---------------------------------------------------------------------------
(* sorted(pushes, key=created): stable insertion into a sorted list *)

Insert(s, p) ==
    LET k == Cardinality({i \in 1..Len(s) : s[i].created <= p.created})
    IN  SubSeq(s, 1, k) \o <<p>> \o SubSeq(s, k + 1, Len(s))

RECURSIVE Sorted(_)
Sorted(s) ==
    IF s = <<>> THEN <<>>
    ELSE Insert(Sorted(SubSeq(s, 1, Len(s) - 1)), s[Len(s)])

\* all push lists of length at most n
RECURSIVE Lists(_)
Lists(n) ==
    IF n = 0 THEN {<<>>}
    ELSE LET shorter == Lists(n - 1)
         IN  shorter \cup {Append(l, p) : l \in {x \in shorter : Len(x) = n - 1}, p \in RawPush}

---------------------------------------------------------------------------
(* process_message *)

SinkOutcomes == {"ok", "notify_raises", "append_raises"}

Bump(f, id) == [f EXCEPT ![id] = Min(@ + 1, MaxDeliver)]

\* lines 144-145: once the set exceeds the limit, next(iter(set)) removes one
\* element; which one is up to the set's hash order, so `victim` is any member
Evict(ids, victim) ==
    IF Cardinality(ids) > MAX_PROCESSED_IDS THEN ids \ {victim} ELSE ids

\* a bug: the membership test of lines 135-136 is missing
process_message_ungated(message_id, sink, victim) ==
    IF sink = "notify_raises"
    THEN [ids |-> processed_ids, cache |-> CACHE_FILE, outcome |-> "notify_failed"]
    ELSE IF sink = "append_raises"
    THEN [ids |-> processed_ids, cache |-> CACHE_FILE, outcome |-> "append_failed"]
    ELSE [ids |-> Evict(processed_ids \cup {message_id}, victim),
          cache |-> Bump(CACHE_FILE, message_id), outcome |-> "delivered"]

\* lines 133-145.  sink: how notify-send and the cache append go.
\* The result: the new set, the new sink counters, what happened
\* (append_failed: the notification was shown, the cache line was not written).
process_message(message_id, sink, victim) ==
    IF message_id \in processed_ids
    THEN [ids |-> processed_ids, cache |-> CACHE_FILE, outcome |-> "duplicate"]
    ELSE IF sink = "notify_raises"                       \* line 139 raises
    THEN [ids |-> processed_ids, cache |-> CACHE_FILE, outcome |-> "notify_failed"]
    ELSE IF sink = "append_raises"                       \* line 140 raises
    THEN [ids |-> processed_ids, cache |-> CACHE_FILE, outcome |-> "append_failed"]
    ELSE [ids |-> Evict(processed_ids \cup {message_id}, victim),
          cache |-> Bump(CACHE_FILE, message_id), outcome |-> "delivered"]

Raised(outcome) == outcome \in {"notify_failed", "append_failed"}

NoLast == [path |-> "none", iden |-> 0, target |-> None, channel |-> "",
           source |-> "", outcome |-> "none"]

Handled(path, push, source, outcome) ==
    [path |-> path, iden |-> push.iden, target |-> push.target_device_iden,
     channel |-> push.channel_iden, source |-> source, outcome |-> outcome]

---------------------------------------------------------------------------
(* The state after construction: the module globals are empty, __main__ is  *)
(* about to call fetch_new_pushes; the timestamp file is what an earlier    *)
(* run left (or never written).                                             *)

Idle == [ret |-> "none", todo |-> <<>>, last_timestamp |-> 0, new_timestamp |-> 0,
         file0 |-> NoFile, result |-> "none", sunk |-> 0]

NoHandshake == [attempt |-> "none", key |-> 0, status101 |-> FALSE, accept |-> 0]

Free == [fixed |-> FALSE, pushes |-> <<>>]

NoFrame == [kind |-> "unread", created |-> 0, message |-> FALSE]

InitProgram ==
    /\ pc = "startup"
    /\ ssl_sock = "unbound"
    /\ backoff_time = RECONNECT_DELAY
    /\ failures = 0
    /\ hs = NoHandshake
    /\ received_timestamps = {}
    /\ processed_ids = {}
    /\ TIMESTAMP_FILE \in {NoFile} \cup 0..MaxCreated
    /\ CACHE_FILE = [i \in Ids |-> 0]
    /\ last = NoLast
    /\ fetch = Idle
    /\ prev_fetch = "none"
    /\ frame = NoFrame
    /\ peer = "up"

Init == InitProgram /\ server = Free /\ elapsed = Untimed

\* the same program against a server whose push list does not change
InitFetch ==
    /\ InitProgram
    /\ server \in {[fixed |-> TRUE, pushes |-> l] : l \in Lists(MaxServer)}
    /\ elapsed = Untimed

\* the same program with a clock, against a server that lists no pushes
InitTimed ==
    /\ InitProgram
    /\ server = [fixed |-> TRUE, pushes |-> <<>>]
    /\ elapsed = 0

---------------------------------------------------------------------------
(* Time: `elapsed` follows time.time() - last_fetch_time.  The blocking     *)
(* calls take time: the connection attempt (up to CONNECT_TIMEOUT), the     *)
(* frame read (up to READ_TIMEOUT) and the backoff sleep; the other         *)
(* statements take none.                                                    *)

Clock(t) == IF elapsed = Untimed THEN Untimed ELSE Min(t, MaxElapsed)

Times(S) == IF elapsed = Untimed THEN {0} ELSE S

ConnectTimes == {0, CONNECT_TIMEOUT}
ReadTimes == {0, READ_TIMEOUT}

---------------------------------------------------------------------------
(* fetch_new_pushes *)

\* what urlopen + json.loads can give: a push list, or an exception
Batches == IF server.fixed THEN {server.pushes} ELSE Lists(MaxBatch)

\* where control goes when the call returns
Return(ret) ==
    CASE ret = "startup"  -> "connect"   \* line 266: main_loop()
      [] ret = "periodic" -> "read"      \* line 237
      [] ret = "tickle"   -> "loop"      \* line 223

\* a bug: the running maximum starts from zero, not from the watermark
new_timestamp_from_zero(last_timestamp) == 0

\* line 157: the running maximum starts at the loaded watermark
initial_new_timestamp(last_timestamp) == last_timestamp

\* a bug: line 180 is missing, the running maximum never moves
new_timestamp_kept(new_timestamp, created) == new_timestamp

\* line 180
new_timestamp_after(new_timestamp, created) == Max(new_timestamp, created)

\* a bug: a failed call resets the watermark (removes the file)
FetchSavedResetOnError(result, file, new_timestamp) ==
    IF result = "ok" THEN save_last_timestamp(new_timestamp) ELSE NoFile

\* a bug: the save sits in a `finally`, so a failed call saves too
FetchSavedAlways(result, file, new_timestamp) ==
    save_last_timestamp(new_timestamp)

\* lines 182-184: save_last_timestamp is reached only when nothing raised
FetchSaved(result, file, new_timestamp) ==
    IF result = "ok" THEN save_last_timestamp(new_timestamp) ELSE file

\* lines 149-157: load the watermark, request, decode, sort
BeginFetch(ret) ==
    /\ \E ok \in BOOLEAN :
         IF ok
         THEN \E pushes \in Batches :
                /\ fetch' = [ret |-> ret, todo |-> Sorted(pushes),
                             last_timestamp |-> load_last_timestamp(TIMESTAMP_FILE),
                             new_timestamp |->
                                 initial_new_timestamp(load_last_timestamp(TIMESTAMP_FILE)),
                             file0 |-> TIMESTAMP_FILE, result |-> "running", sunk |-> 0]
                /\ pc' = "fetch_loop"
                /\ TIMESTAMP_FILE' = TIMESTAMP_FILE
         ELSE /\ fetch' = [ret |-> ret, todo |-> <<>>,
                           last_timestamp |-> load_last_timestamp(TIMESTAMP_FILE),
                           new_timestamp |-> load_last_timestamp(TIMESTAMP_FILE),
                           file0 |-> TIMESTAMP_FILE, result |-> "error", sunk |-> 0]
              /\ pc' = "fetch_done"
              /\ TIMESTAMP_FILE' = FetchSaved("error", TIMESTAMP_FILE,
                                              load_last_timestamp(TIMESTAMP_FILE))
    /\ last' = NoLast
    /\ UNCHANGED <<processed_ids, CACHE_FILE, prev_fetch, server>>

\* line 264
StartupFetch ==
    /\ pc = "startup"
    /\ BeginFetch("startup")
    /\ UNCHANGED <<frame, elapsed, peer>>
    /\ UNCHANGED <<ssl_sock, backoff_time, failures, hs, received_timestamps>>

\* lines 158-180: one turn of the batch loop
FetchStep ==
    /\ pc = "fetch_loop"
    /\ fetch.todo # <<>>
    /\ frame' = NoFrame
    /\ UNCHANGED <<elapsed, peer>>
    /\ LET push == Head(fetch.todo)
           source == source_fetch(push)
       IN  IF stale(push, fetch.last_timestamp)
           THEN /\ last' = Handled("fetch", push, "", "stale")
                /\ fetch' = [fetch EXCEPT !.todo = Tail(@)]
                /\ UNCHANGED <<pc, processed_ids, CACHE_FILE, TIMESTAMP_FILE>>
           ELSE IF source = Skip
           THEN /\ last' = Handled("fetch", push, "", "not_for_device")
                /\ fetch' = [fetch EXCEPT !.todo = Tail(@)]
                /\ UNCHANGED <<pc, processed_ids, CACHE_FILE, TIMESTAMP_FILE>>
           ELSE \E sink \in SinkOutcomes, victim \in processed_ids \cup {push.iden} :
                  LET r == process_message(push.iden, sink, victim)
                      n == IF r.outcome \in {"delivered", "append_failed"}
                           THEN fetch.sunk + 1 ELSE fetch.sunk
                  IN  /\ processed_ids' = r.ids
                      /\ CACHE_FILE' = r.cache
                      /\ last' = Handled("fetch", push, source, r.outcome)
                      /\ IF Raised(r.outcome)
                         THEN /\ fetch' = [fetch EXCEPT !.result = "error", !.sunk = n]
                              /\ pc' = "fetch_done"
                              /\ TIMESTAMP_FILE' =
                                   FetchSaved("error", TIMESTAMP_FILE, fetch.new_timestamp)
                         ELSE /\ fetch' = [fetch EXCEPT
                                             !.todo = Tail(@), !.sunk = n,
                                             !.new_timestamp =
                                                 new_timestamp_after(@, push.created)]
                              /\ UNCHANGED <<pc, TIMESTAMP_FILE>>
    /\ UNCHANGED <<ssl_sock, backoff_time, failures, hs, received_timestamps,
                   prev_fetch, server>>

\* line 182: the loop is over
FetchFinish ==
    /\ pc = "fetch_loop"
    /\ fetch.todo = <<>>
    /\ frame' = NoFrame
    /\ UNCHANGED <<elapsed, peer>>
    /\ TIMESTAMP_FILE' = FetchSaved("ok", TIMESTAMP_FILE, fetch.new_timestamp)
    /\ fetch' = [fetch EXCEPT !.result = "ok"]
    /\ pc' = "fetch_done"
    /\ UNCHANGED <<ssl_sock, backoff_time, failures, hs, received_timestamps,
                   processed_ids, CACHE_FILE, last, prev_fetch, server>>

\* the call returns to its caller; after the startup call main_loop begins
\* with last_fetch_time = time.time() (line 210)
FetchReturn ==
    /\ pc = "fetch_done"
    /\ pc' = Return(fetch.ret)
    /\ elapsed' = IF fetch.ret = "startup" THEN Clock(0) ELSE elapsed
    /\ frame' = NoFrame
    /\ UNCHANGED peer
    /\ prev_fetch' = fetch.result
    /\ fetch' = Idle
    /\ last' = NoLast
    /\ UNCHANGED <<ssl_sock, backoff_time, failures, hs, received_timestamps,
                   processed_ids, TIMESTAMP_FILE, CACHE_FILE, server>>

---------------------------------------------------------------------------
(* main_loop *)

\* an exception reaches `except Exception` (line 250)
RaiseToHandler ==
    /\ pc' = "except"
    /\ failures' = Min(failures + 1, MaxFailures)

\* a bug (and what the message at line 257 is taken for when read as dead
\* code): the cap is never an exit condition
ExitNever(backoff) == FALSE

\* line 256
ExitOnFailure(backoff) == backoff >= max_backoff

\* a bug: the delay grows by a constant step
NextBackoffLinear(backoff) == Min(backoff + RECONNECT_DELAY, max_backoff)

\* line 260
NextBackoff(backoff) == Min(backoff * 2, max_backoff)

\* lines 214-220: one connection attempt.  Either the socket/TLS calls raise,
\* or the server answers the upgrade request.
Connect ==
    /\ pc = "connect"
    /\ \/ /\ hs' = [attempt |-> "raised", key |-> 0, status101 |-> FALSE, accept |-> 0]
          /\ RaiseToHandler
          /\ UNCHANGED <<ssl_sock, backoff_time>>
       \/ \E key \in Keys, response \in Responses :
            LET c == create_websocket_connection(key, response)
            IN  /\ hs' = [attempt |-> "answered", key |-> key,
                          status101 |-> response.status101, accept |-> response.accept]
                /\ ssl_sock' = c.ret
                /\ IF c.ret = "None"
                   THEN RaiseToHandler /\ UNCHANGED backoff_time       \* line 216
                   ELSE /\ backoff_time' = RECONNECT_DELAY              \* line 219
                        /\ failures' = 0
                        /\ pc' = "loop"
    /\ \E d \in Times(ConnectTimes) : elapsed' = Clock(elapsed + d)
    /\ peer' = IF pc' = "loop" THEN "up" ELSE peer
    /\ UNCHANGED <<received_timestamps, processed_ids, TIMESTAMP_FILE,
                   CACHE_FILE, last, fetch, prev_fetch, server, frame>>

\* a bug: the result of send_ping is not looked at
ping_result_ignored(ping_due, ping_sent) == FALSE

\* lines 226-228: the ping was due and send_ping returned False
ping_lost(ping_due, ping_sent) == ping_due /\ ~ ping_sent

\* a bug: the fetch waits until more than the interval has passed
fetch_due_late(since) == since > FETCH_INTERVAL

\* line 232
fetch_due(since) == since >= FETCH_INTERVAL

\* the outcomes of the test of line 232: any where time is abstract
FetchDue == IF elapsed = Untimed THEN BOOLEAN ELSE {fetch_due(elapsed)}

\* lines 223-234: the ping timer, then the fetch timer
LoopTop ==
    /\ pc = "loop"
    /\ \E ping_due \in BOOLEAN, ping_sent \in BOOLEAN, due \in FetchDue :
         IF ping_lost(ping_due, ping_sent)
         THEN /\ RaiseToHandler                                         \* line 228
              /\ UNCHANGED <<processed_ids, TIMESTAMP_FILE, CACHE_FILE,
                             last, fetch, prev_fetch, server, elapsed>>
         ELSE IF due
         THEN /\ BeginFetch("periodic")                                 \* line 233
              /\ elapsed' = Clock(0)                                    \* line 234
              /\ UNCHANGED failures
         ELSE /\ pc' = "read"
              /\ last' = NoLast
              /\ UNCHANGED <<failures, processed_ids, TIMESTAMP_FILE,
                             CACHE_FILE, fetch, prev_fetch, server, elapsed>>
    /\ hs' = NoHandshake
    /\ frame' = NoFrame
    /\ UNCHANGED peer
    /\ UNCHANGED <<ssl_sock, backoff_time, received_timestamps>>

\* what one read can bring: nothing usable (timeout, reset, control frame,
\* undecodable payload), or a JSON text message of one of these shapes
FrameKinds == {"none", "tickle_push", "other", "push", "push_null"}

\* a bug: line 123 without its `created and`: a second message without a
\* "created" is taken for a repeat
read_frame_no_zero_guard(kind, created) ==
    IF kind = "none"
    THEN [message |-> FALSE, timestamps |-> received_timestamps]
    ELSE IF created \in received_timestamps
    THEN [message |-> FALSE, timestamps |-> received_timestamps]
    ELSE [message |-> TRUE, timestamps |-> received_timestamps \cup {created}]

\* a bug: the timestamp is recorded before the frame is looked at
read_frame_adds_first(kind, created) ==
    IF kind = "none"
    THEN [message |-> FALSE, timestamps |-> received_timestamps \cup {created}]
    ELSE IF created # 0 /\ created \in received_timestamps
    THEN [message |-> FALSE, timestamps |-> received_timestamps]
    ELSE [message |-> TRUE, timestamps |-> received_timestamps \cup {created}]

\* lines 95-131.  created: the message's top-level "created" (0: absent).
read_frame(kind, created) ==
    IF kind = "none"
    THEN [message |-> FALSE, timestamps |-> received_timestamps]
    ELSE IF created # 0 /\ created \in received_timestamps
    THEN [message |-> FALSE, timestamps |-> received_timestamps]
    ELSE [message |-> TRUE, timestamps |-> received_timestamps \cup {created}]

\* lines 187-205
handle_push_data(push) ==
    /\ UNCHANGED <<fetch, TIMESTAMP_FILE>>
    /\ LET source == source_stream(push)
       IN  IF source = Skip
           THEN /\ last' = Handled("stream", push, "", "not_for_device")
                /\ pc' = "loop"
                /\ UNCHANGED <<failures, processed_ids, CACHE_FILE>>
           ELSE \E sink \in SinkOutcomes, victim \in processed_ids \cup {push.iden} :
                  LET r == process_message(push.iden, sink, victim)
                  IN  /\ processed_ids' = r.ids
                      /\ CACHE_FILE' = r.cache
                      /\ last' = Handled("stream", push, source, r.outcome)
                      /\ IF Raised(r.outcome)
                         THEN RaiseToHandler
                         ELSE pc' = "loop" /\ UNCHANGED failures

\* a bug: the subtype of a tickle is not looked at
dispatch_every_tickle(kind) ==
    CASE kind \in {"tickle_push", "other"} -> "fetch"
      [] kind \in {"push", "push_null"} -> "handle"

\* lines 240-243: what main_loop does with a message
dispatch(kind) ==
    CASE kind = "tickle_push" -> "fetch"
      [] kind \in {"push", "push_null"} -> "handle"
      [] OTHER -> "ignore"

\* lines 237-245: read one frame and dispatch it.  A socket the peer has
\* closed gives no frame, at once.
Read(kinds) ==
    /\ pc = "read"
    /\ \E kind \in kinds, created \in 0..MaxFrameCreated, d \in Times(ReadTimes) :
         LET f == read_frame(kind, created)
             route == IF f.message THEN dispatch(kind) ELSE "idle"
         IN  /\ peer = "closed" => (kind = "none" /\ d = 0)
             /\ received_timestamps' = f.timestamps
             /\ frame' = [kind |-> kind,
                          created |-> IF kind = "none" THEN 0 ELSE created,
                          message |-> f.message]
             /\ elapsed' = Clock(elapsed + d)
             /\ IF route \in {"idle", "ignore"}
                THEN /\ pc' = "loop"                                    \* line 245 / no branch
                     /\ UNCHANGED <<failures, processed_ids, TIMESTAMP_FILE,
                                    CACHE_FILE, last, fetch>>
                ELSE IF route = "fetch"
                THEN BeginFetch("tickle") /\ UNCHANGED failures         \* line 241
                ELSE IF kind = "push_null"
                THEN /\ RaiseToHandler                                  \* None.get, line 189
                     /\ UNCHANGED <<processed_ids, TIMESTAMP_FILE,
                                    CACHE_FILE, last, fetch>>
                ELSE \E push \in RawPush : handle_push_data(push)       \* line 243
    /\ UNCHANGED <<ssl_sock, backoff_time, hs, prev_fetch, server, peer>>

ReadFrame == Read(FrameKinds)

\* the stream stays silent
ReadNothing == Read({"none"})

\* lines 250-258: close the socket; exit once the backoff is at its maximum.
\* `sys` is never imported, so line 258 raises NameError out of the handler:
\* the process ends either way.
ExceptHandler ==
    /\ pc = "except"
    /\ ssl_sock' = IF ssl_sock = "open" THEN "closed" ELSE ssl_sock
    /\ pc' = IF ExitOnFailure(backoff_time) THEN "exit_NameError" ELSE "sleep"
    /\ hs' = NoHandshake
    /\ frame' = NoFrame
    /\ UNCHANGED <<elapsed, peer>>
    /\ UNCHANGED <<backoff_time, failures, received_timestamps, processed_ids,
                   TIMESTAMP_FILE, CACHE_FILE, last, fetch, prev_fetch, server>>

\* lines 259-260: the sleep is over
SleepDone ==
    /\ pc = "sleep"
    /\ backoff_time' = NextBackoff(backoff_time)
    /\ elapsed' = Clock(elapsed + backoff_time)
    /\ pc' = "connect"
    /\ last' = NoLast
    /\ UNCHANGED <<frame, peer>>
    /\ UNCHANGED <<ssl_sock, failures, hs, received_timestamps, processed_ids,
                   TIMESTAMP_FILE, CACHE_FILE, fetch, prev_fetch, server>>

\* where a KeyboardInterrupt meets `except KeyboardInterrupt` (line 247): inside
\* the try block of main_loop
InTry ==
    \/ pc \in {"connect", "loop", "read"}
    \/ pc \in {"fetch_loop", "fetch_done"} /\ fetch.ret # "startup"

Running == pc \notin {"exit_interrupt", "exit_KeyboardInterrupt", "exit_NameError"}

\* Ctrl-C.  Outside the try block (startup fetch, the handler and its sleep)
\* nothing catches it.
Interrupt ==
    /\ Running
    /\ pc' = IF InTry THEN "exit_interrupt" ELSE "exit_KeyboardInterrupt"
    /\ UNCHANGED <<ssl_sock, backoff_time, failures, hs, received_timestamps,
                   processed_ids, TIMESTAMP_FILE, CACHE_FILE, last, fetch,
                   prev_fetch, server, frame, elapsed, peer>>

\* the peer closes the connection: from now on recv returns b"" at once
\* (read_frame returns None through line 130) and sendall fails sooner or later
PeerCloses ==
    /\ pc \in {"loop", "read"}
    /\ ssl_sock = "open"
    /\ peer = "up"
    /\ peer' = "closed"
    /\ UNCHANGED <<pc, ssl_sock, backoff_time, failures, hs, received_timestamps,
                   processed_ids, TIMESTAMP_FILE, CACHE_FILE, last, fetch,
                   prev_fetch, server, frame, elapsed>>

Next ==
    \/ StartupFetch
    \/ FetchStep
    \/ FetchFinish
    \/ FetchReturn
    \/ Connect
    \/ LoopTop
    \/ ReadFrame
    \/ ExceptHandler
    \/ SleepDone
    \/ Interrupt

Spec == Init /\ [][Next]_vars

NextFetch ==
    \/ StartupFetch
    \/ FetchStep
    \/ FetchFinish
    \/ FetchReturn
    \/ Connect
    \/ LoopTop
    \/ ReadNothing

\* reconciliation against an unchanging server and a silent stream: the startup
\* run, then the runs of the connected loop, up to the first connection fault
SpecFetch == InitFetch /\ [][NextFetch]_vars

NextTimed ==
    \/ StartupFetch
    \/ FetchFinish
    \/ FetchReturn
    \/ Connect
    \/ LoopTop
    \/ ReadNothing
    \/ ExceptHandler
    \/ SleepDone
    \/ PeerCloses

\* send_ping on a socket the peer has closed returns False
DeadPingFails == peer = "closed" /\ LoopTop /\ pc' = "except"

\* the supervisor with a clock, a silent stream and a server without pushes.
\* The single thread keeps running; on a socket the peer has closed the ping
\* comes due again and again (the loop never blocks longer than READ_TIMEOUT)
\* and sendall fails after finitely many attempts.
SpecTimed ==
    InitTimed /\ [][NextTimed]_vars /\ WF_vars(NextTimed) /\ SF_vars(DeadPingFails)

---------------------------------------------------------------------------
(* Properties *)

RECURSIVE Pow2(_)
Pow2(n) == IF n = 0 THEN 1 ELSE 2 * Pow2(n - 1)

Interrupted == {"exit_interrupt", "exit_KeyboardInterrupt"}

\* a handled push went as far as process_message
Processed(l) == l.outcome \in {"duplicate", "delivered", "notify_failed", "append_failed"}

\* C1, as claimed (its at-most-once half): however many other ids are
\* processed in between, no id is delivered to the sink twice.
C1_AtMostOncePerId == \A i \in Ids : CACHE_FILE[i] <= 1

\* C1, amended: while an id is in processed_ids no push with that id reaches
\* the sink, on either path; an id is delivered again only after line 145 has
\* removed it from the set.
C1_NoDeliveryWhileSeen ==
    [][\A i \in processed_ids : CACHE_FILE'[i] = CACHE_FILE[i]]_vars

\* C1 witness: a push that came by the fetch path, with an id delivered once
\* before and still in the set, was dropped as a duplicate.
C1_DuplicateDropped ==
    /\ last.path = "fetch"
    /\ last.outcome = "duplicate"
    /\ last.iden \in processed_ids
    /\ CACHE_FILE[last.iden] = 1

\* C2: the value load_last_timestamp reads from the timestamp file never
\* decreases from one state to the next, whatever fetch_new_pushes does.
C2_WatermarkMonotone ==
    [][load_last_timestamp(TIMESTAMP_FILE') >= load_last_timestamp(TIMESTAMP_FILE)]_vars

\* C2 witness: a call whose whole batch was at or below a nonzero watermark
\* has saved, and the stored value is the one it found.
C2_StaleBatchSaved ==
    /\ pc = "fetch_done"
    /\ fetch.result = "ok"
    /\ last.outcome = "stale"
    /\ fetch.file0 > 0
    /\ TIMESTAMP_FILE = fetch.file0

\* C3, as claimed: repeated connection failure never ends the process.
C3_FailureNeverTerminates == pc # "exit_NameError"

\* C3, amended: the handler sleeps and the supervisor connects again after each
\* of the first six consecutive failures; the seventh finds backoff_time at
\* max_backoff and ends the process at line 258.  Apart from that only an
\* interrupt stops the supervisor.
C3_TerminatesOnlyAtMaxBackoff ==
    [][/\ (pc = "except" /\ failures <= 6) => pc' \in {"sleep"} \cup Interrupted
       /\ (pc = "except" /\ failures >= 7) => pc' \in {"exit_NameError"} \cup Interrupted
       /\ pc = "sleep" => pc' \in {"connect"} \cup Interrupted
       /\ pc' = "exit_NameError" => backoff_time = max_backoff /\ failures = 7]_vars

\* C3 witness: the process has ended on the seventh consecutive failure.
C3_ExitedAtMaxBackoff ==
    pc = "exit_NameError" /\ failures = 7 /\ backoff_time = max_backoff

\* C4, as claimed: every failure, the k-th in a row, is followed by a sleep of
\* min(5 * 2^(k-1), 300) seconds.
C4_SleepAfterEveryFailure ==
    [][pc = "except" =>
         \/ pc' \in Interrupted
         \/ /\ pc' = "sleep"
            /\ backoff_time' = Min(RECONNECT_DELAY * Pow2(failures - 1), max_backoff)]_vars

\* C4, amended: the k-th consecutive failure is followed by a sleep of
\* 5 * 2^(k-1) seconds for k = 1..6; the seventh is not followed by a sleep;
\* a successful connection puts the delay back to 5 seconds, so the failure
\* after it is the first again.
C4_BackoffSchedule ==
    [][/\ (pc = "except" /\ failures <= 6) =>
            \/ pc' \in Interrupted
            \/ /\ pc' = "sleep"
               /\ backoff_time' = RECONNECT_DELAY * Pow2(failures - 1)
       /\ (pc = "except" /\ failures >= 7) => pc' # "sleep"
       /\ pc' = "loop" => backoff_time' = RECONNECT_DELAY /\ failures' = 0
       /\ (pc \in {"loop", "read"} /\ pc' = "except") => failures' = 1]_vars

\* C4 witness: the third failure in a row is being slept off for 20 seconds.
C4_ThirdFailureSleeps20 ==
    pc = "sleep" /\ failures = 3 /\ backoff_time = 20

\* C5: a push without channel_iden that targets another device is passed over
\* on both paths and changes neither the sink nor processed_ids; one without a
\* target is processed with source "All Devices"; one that targets DEVICE_ID
\* is processed with the empty source.
C5_DeviceFilter ==
    [][(last'.path # "none" /\ last'.channel = "") =>
         /\ last'.target = OtherDevice =>
               /\ ~ Processed(last')
               /\ processed_ids' = processed_ids
               /\ CACHE_FILE' = CACHE_FILE
         /\ (last'.target = None /\ Processed(last')) => last'.source = "All Devices"
         /\ (last'.target = DEVICE_ID /\ Processed(last')) => last'.source = ""]_vars

\* C5 witness: a stream push for another device was passed over while a
\* broadcast push had been delivered before.
C5_OtherDeviceSkipped ==
    /\ last.path = "stream"
    /\ last.target = OtherDevice
    /\ last.channel = ""
    /\ last.outcome = "not_for_device"
    /\ last.iden \notin processed_ids
    /\ processed_ids # {}

\* C6: against an unchanging server and a silent stream, a fetch_new_pushes
\* call that follows a call which ended without error delivers nothing and
\* leaves the timestamp file as it found it.
C6_SecondFetchIdle ==
    (pc = "fetch_done" /\ prev_fetch = "ok") =>
        fetch.sunk = 0 /\ TIMESTAMP_FILE = fetch.file0

\* C6 witness: the second call found only pushes the first had delivered.
C6_SecondFetchRan ==
    /\ pc = "fetch_done"
    /\ prev_fetch = "ok"
    /\ fetch.result = "ok"
    /\ last.outcome = "stale"
    /\ CACHE_FILE[last.iden] = 1

\* C7, as claimed: a sink failure inside process_message does not reach the
\* pipeline: on the stream path the supervisor is still connected with its
\* socket open, on the fetch path the call does not end with pushes after the
\* failing one still to be processed.
C7_SinkFailureContained ==
    Raised(last.outcome) =>
        /\ last.path = "stream" => pc \in {"loop", "read"} /\ ssl_sock = "open"
        /\ last.path = "fetch" => ~ (pc = "fetch_done" /\ Len(fetch.todo) > 1)

\* C8: while the batch loop is running, and after a call that failed, the
\* timestamp file is exactly what the call found.
C8_FailedFetchKeepsWatermark ==
    (pc = "fetch_loop" \/ (pc = "fetch_done" /\ fetch.result = "error")) =>
        TIMESTAMP_FILE = fetch.file0

\* C8 witness: a call failed after it had delivered a push newer than the
\* watermark, with more of the batch to go.
C8_FailedMidBatch ==
    /\ pc = "fetch_done"
    /\ fetch.result = "error"
    /\ fetch.new_timestamp > fetch.last_timestamp
    /\ fetch.todo # <<>>

\* C9: after an upgrade response without the 101 status or without the accept
\* token of the key that was sent, the call has returned None, the exception
\* of line 216 is on its way to the handler, and the supervisor is not in its
\* connected loop.
C9_HandshakeRejection ==
    (/\ hs.attempt = "answered"
     /\ (~ hs.status101 \/ hs.accept # expected_accept(hs.key))) =>
        /\ ssl_sock = "None"
        /\ pc \in {"except", "exit_KeyboardInterrupt"}
        /\ failures >= 1

\* C9 witness: a response with the 101 status and the accept token of another
\* key was rejected.
C9_ForgedAcceptRejected ==
    /\ hs.attempt = "answered"
    /\ hs.status101
    /\ hs.accept # expected_accept(hs.key)
    /\ hs.accept \in {expected_accept(k) : k \in Keys}
    /\ pc = "except"

\* C10, as claimed: received_timestamps and processed_ids each hold at most
\* MAX_PROCESSED_IDS entries.
C10_BothSetsBounded ==
    /\ Cardinality(received_timestamps) <= MAX_PROCESSED_IDS
    /\ Cardinality(processed_ids) <= MAX_PROCESSED_IDS

\* the positions of main_loop: connecting, the connected loop with the fetches
\* it calls, the handler and its sleep
InSupervisor ==
    \/ pc \in {"connect", "loop", "read", "except", "sleep"}
    \/ pc \in {"fetch_loop", "fetch_done"} /\ fetch.ret # "startup"

\* C11, as claimed: wherever the supervisor is when the user interrupts, it
\* leaves through the handler of lines 247-249, never through an uncaught
\* KeyboardInterrupt.
C11_InterruptIsGraceful ==
    [][(InSupervisor /\ pc' \in Interrupted) => pc' = "exit_interrupt"]_vars

\* C12, as claimed: a processed channel push carries the label
\* "<sender_name>: \n<title>" on the stream path and "Channel: <sender_name>"
\* on the fetch path.
C12_ChannelLabelsAsClaimed ==
    (last.channel # "" /\ Processed(last)) =>
        /\ last.path = "stream" => last.source = "<sender_name>: \n<title>"
        /\ last.path = "fetch" => last.source = "Channel: <sender_name>"

\* C12, amended: it is the other way round: the stream path labels a channel
\* push "Channel: <sender_name>" and the fetch path "<sender_name>: \n<title>";
\* on neither path does the device filter pass over a channel push, whatever
\* its target_device_iden.
C12_ChannelLabels ==
    (last.channel # "" /\ last.path # "none") =>
        /\ last.outcome # "not_for_device"
        /\ last.path = "stream" =>
               Processed(last) /\ last.source = "Channel: <sender_name>"
        /\ last.path = "fetch" =>
               \/ last.outcome = "stale"
               \/ Processed(last) /\ last.source = "<sender_name>: \n<title>"

\* C12 witness: the fetch path delivered a channel push whose target is
\* another device.
C12_ChannelPushForOtherDevice ==
    /\ last.path = "fetch"
    /\ last.channel # ""
    /\ last.target = OtherDevice
    /\ last.outcome = "delivered"

\* a push of the batch that passes the filters of lines 160-177 under the
\* watermark the call loaded, and so reaches process_message
Eligible(push, last_timestamp) ==
    ~ stale(push, last_timestamp) /\ source_fetch(push) # Skip

\* the created values of the pushes of a batch that reach process_message
CreatedSeen(pushes, last_timestamp) ==
    {pushes[k].created : k \in {j \in 1..Len(pushes) :
                                  Eligible(pushes[j], last_timestamp)}}

Maximum(S) == CHOOSE m \in S : \A n \in S : n <= m

C14_JustDeliveredIsKept ==
    last.outcome = "delivered" => last.iden \in processed_ids

\* the frames that carry a JSON text message
TextKinds == FrameKinds \ {"none"}

\* the step is a read_frame call that met a frame of one of these kinds
ReadStep(kinds) == pc = "read" /\ frame'.kind \in kinds

\* C15, as claimed: read_frame returns the message of a text frame exactly
\* when its created is nonzero and not yet in received_timestamps.
C15_GateAsClaimed ==
    [][ReadStep(TextKinds) =>
         (frame'.message <=>
             (frame'.created # 0 /\ frame'.created \notin received_timestamps))]_vars

\* C15, amended: read_frame returns the message of a text frame exactly when
\* its created is zero or missing, or is not yet in received_timestamps; an
\* admitted frame's created (zero included) is added to the set, a rejected
\* frame adds nothing.
C15_TimestampGate ==
    [][ReadStep(TextKinds) =>
         /\ frame'.message <=>
                (frame'.created = 0 \/ frame'.created \notin received_timestamps)
         /\ received_timestamps' =
                IF frame'.message
                THEN received_timestamps \cup {frame'.created}
                ELSE received_timestamps]_vars

\* C15 witness: a push message without a top-level created was admitted and
\* its push delivered.
C15_ZeroCreatedAdmitted ==
    /\ frame.kind = "push"
    /\ frame.created = 0
    /\ frame.message
    /\ last.path = "stream"
    /\ last.outcome = "delivered"

\* C18: an admitted tickle of subtype push starts fetch_new_pushes in the same
\* step, which returns to the loop top before the next read, and delivers
\* nothing itself; an admitted push message is routed and gated by id, without
\* any fetch and without touching the watermark; any other message leaves
\* sink, id set, fetch and watermark as they were.
C18_Dispatch ==
    [][/\ (ReadStep({"tickle_push"}) /\ frame'.message) =>
            /\ pc' \in {"fetch_loop", "fetch_done"}
            /\ fetch'.ret = "tickle"
            /\ Return(fetch'.ret) = "loop"
            /\ last' = NoLast
            /\ UNCHANGED <<CACHE_FILE, processed_ids>>
       /\ (ReadStep({"push"}) /\ frame'.message) =>
            /\ last'.path = "stream"
            /\ \/ last'.outcome = "not_for_device"
               \/ last'.outcome = "duplicate" /\ last'.iden \in processed_ids
               \/ last'.outcome \in {"delivered", "notify_failed", "append_failed"}
                  /\ last'.iden \notin processed_ids
            /\ last'.outcome # "delivered" => CACHE_FILE' = CACHE_FILE
            /\ pc' \in {"loop", "except"}
            /\ UNCHANGED <<fetch, TIMESTAMP_FILE>>
       /\ ReadStep({"other"}) =>
            /\ pc' = "loop"
            /\ UNCHANGED <<CACHE_FILE, processed_ids, fetch, TIMESTAMP_FILE, last>>
      ]_vars

\* C18 witness: a tickle was admitted and the fetch it started has a push to
\* walk.
C18_TickleStartedFetch ==
    /\ frame.kind = "tickle_push"
    /\ frame.message
    /\ pc = "fetch_loop"
    /\ fetch.ret = "tickle"
    /\ fetch.todo # <<>>

\* C19: a read that yields no frame returns None, keeps the supervisor in the
\* connected loop with its socket open, and leaves received_timestamps,
\* processed_ids, the watermark file and the sink as they were.
C19_NoFrameChangesNothing ==
    [][ReadStep({"none"}) =>
         /\ ~ frame'.message
         /\ pc' = "loop"
         /\ ssl_sock = "open"
         /\ UNCHANGED <<ssl_sock, backoff_time, received_timestamps, processed_ids,
                        TIMESTAMP_FILE, CACHE_FILE>>]_vars

\* C19 witness: a read yielded nothing while both sets and the watermark file
\* had content.
C19_EmptyReadWithState ==
    /\ frame.kind = "none"
    /\ pc = "loop"
    /\ received_timestamps # {}
    /\ processed_ids # {}
    /\ TIMESTAMP_FILE # NoFile

\* C20, as claimed: when the stream path has delivered a push, its created is
\* at or below the persisted watermark, so that the startup fetch of a run
\* that begins after it skips the push.
C20_DeliveredBelowWatermark ==
    [][\A push \in RawPush :
          (pc = "read" /\ handle_push_data(push) /\ last'.outcome = "delivered")
              => push.created <= load_last_timestamp(TIMESTAMP_FILE')]_vars

C17_ConnectionLoss ==
    /\ [][(pc = "loop" /\ pc' = "except") =>
            ssl_sock = "open" /\ UNCHANGED <<ssl_sock, backoff_time>>]_vars
    /\ []((pc = "except" /\ ssl_sock = "open") => backoff_time = RECONNECT_DELAY)
    /\ [][(pc = "except" /\ ssl_sock = "open") =>
            pc' = "sleep" /\ ssl_sock' = "closed" /\ UNCHANGED backoff_time]_vars
    /\ [][(pc = "sleep") =>
            (pc' = "connect"
             /\ elapsed' = Min(elapsed + backoff_time, MaxElapsed))]_vars
    /\ (peer = "closed" /\ ssl_sock = "open") ~> (ssl_sock = "closed")

\* C17 witness: the peer closed the socket, a ping was lost, and the supervisor
\* has closed the session and sleeps the initial delay.
C17_SleepingAfterPeerClosed ==
    /\ pc = "sleep"
    /\ peer = "closed"
    /\ ssl_sock = "closed"
    /\ backoff_time = RECONNECT_DELAY

====
